---- MODULE Spec2Model ----
(***************************************************************************)
(* Model of the Butterworth filter calculator of js/app.js: the input      *)
(* validator, the client-side rate limiter, the element calculation, the   *)
(* DOM rendering with its reveal timers, the validation-message region     *)
(* with its auto-hide timer, and the two event handlers (input, submit).   *)
(*                                                                         *)
(* A JavaScript string is a sequence of one-character strings.  A          *)
(* JavaScript number that the program computes with is a record            *)
(* [t, v]: t = "num" with the integer v, t = "nan" for NaN, and            *)
(* t = "undefined" for a missing property.                                 *)
(***************************************************************************)
EXTENDS Integers, Sequences, FiniteSets, TLC

(* ------------------------------------------------------------------------ *)
(* Bounds of the model                                                       *)
(* ------------------------------------------------------------------------ *)

\* Longest text enumerated for the input field in SpecValidate.
MaxLen == 2

\* The clock takes the values Instant(0), ..., Instant(MaxTick).
MaxTick == 3

\* Most timers pending at once that are left over from earlier events (the
\* auto-hide timers, and the reveal timers of elements since removed): the
\* user waits with an event that would leave more.
MaxLeftover == 2

(* ------------------------------------------------------------------------ *)
(* Program constants (js/app.js lines 8-11)                                  *)
(* ------------------------------------------------------------------------ *)

MAX_REQUESTS == 10

TIME_WINDOW == 60000

MAX_INPUT == 20

MIN_INPUT == 1

(* ------------------------------------------------------------------------ *)
(* JavaScript values and strings                                             *)
(* ------------------------------------------------------------------------ *)

NaN == [t |-> "nan", v |-> 0]

Undefined == [t |-> "undefined", v |-> 0]

Num(i) == [t |-> "num", v |-> i]

Digit == {"0", "1", "2", "3", "4", "5", "6", "7", "8", "9"}

HexDigit == Digit \cup {"a", "b", "c", "d", "e", "f", "A", "B", "C", "D", "E", "F"}

WhiteSpace == {" "}

DigitVal(c) ==
    CASE c = "0" -> 0 [] c = "1" -> 1 [] c = "2" -> 2 [] c = "3" -> 3
      [] c = "4" -> 4 [] c = "5" -> 5 [] c = "6" -> 6 [] c = "7" -> 7
      [] c = "8" -> 8 [] c = "9" -> 9

\* The characters the enumerated texts are built from.
Alphabet == Digit \cup {".", ",", " ", "-", "+", "a", "b", "c", "e", "x"}

\* s without its first i-1 characters.
Drop(s, i) == SubSeq(s, i, Len(s))

RECURSIVE SkipWhile(_, _, _)
\* The first position >= i of s whose character is not in set (Len(s)+1 if none).
SkipWhile(s, i, set) ==
    IF i <= Len(s) /\ s[i] \in set THEN SkipWhile(s, i + 1, set) ELSE i

RECURSIVE LastNotIn(_, _, _)
\* The last position <= i of s whose character is not in set (0 if none).
LastNotIn(s, i, set) ==
    IF i >= 1 /\ s[i] \in set THEN LastNotIn(s, i - 1, set) ELSE i

\* String.prototype.trim
Trim(s) == SubSeq(s, SkipWhile(s, 1, WhiteSpace), LastNotIn(s, Len(s), WhiteSpace))

\* String.prototype.includes for a one-character needle
includes(s, c) == \E i \in 1..Len(s) : s[i] = c

InfinityText == <<"I", "n", "f", "i", "n", "i", "t", "y">>

\* The position after an optional ExponentPart of s at i; 0 when an exponent
\* indicator is there without digits.
ExpEnd(s, i) ==
    IF i <= Len(s) /\ s[i] \in {"e", "E"}
    THEN LET j == IF i + 1 <= Len(s) /\ s[i + 1] \in {"+", "-"} THEN i + 2 ELSE i + 1
             e == SkipWhile(s, j, Digit)
         IN  IF e > j THEN e ELSE 0
    ELSE i

\* StrUnsignedDecimalLiteral of the StringToNumber grammar.
IsUnsignedDecimal(s) ==
    \/ s = InfinityText
    \/ LET a == SkipWhile(s, 1, Digit)
           hasDot == a <= Len(s) /\ s[a] = "."
           b == IF hasDot THEN SkipWhile(s, a + 1, Digit) ELSE a
           hasInt == a > 1
           hasFrac == hasDot /\ b > a + 1
       IN  (hasInt \/ hasFrac) /\ ExpEnd(s, b) = Len(s) + 1

\* NonDecimalIntegerLiteral of the StringToNumber grammar: 0x.., 0o.., 0b..
IsNonDecimalInteger(s) ==
    /\ Len(s) >= 3
    /\ s[1] = "0"
    /\ \/ s[2] \in {"x", "X"} /\ SkipWhile(s, 3, HexDigit) = Len(s) + 1
       \/ s[2] \in {"o", "O"} /\ SkipWhile(s, 3, {"0", "1", "2", "3", "4", "5", "6", "7"}) = Len(s) + 1
       \/ s[2] \in {"b", "B"} /\ SkipWhile(s, 3, {"0", "1"}) = Len(s) + 1

\* Whether Number(s) is NaN: s, trimmed, is neither empty nor a StrNumericLiteral.
NumberIsNaN(s) ==
    LET t == Trim(s)
        u == IF t # <<>> /\ t[1] \in {"+", "-"} THEN Drop(t, 2) ELSE t
    IN  ~ (t = <<>> \/ IsNonDecimalInteger(t) \/ IsUnsignedDecimal(u))

\* The global isNaN applied to a string: isNaN(Number(value)).
isNaN(value) == NumberIsNaN(value)

RECURSIVE DigitsValue(_, _)
\* The integer the decimal digits s denote, after the digits denoting acc.
DigitsValue(s, acc) ==
    IF s = <<>> THEN acc ELSE DigitsValue(Tail(s), 10 * acc + DigitVal(Head(s)))

\* parseInt(value, 10): leading white space skipped, an optional sign, then the
\* longest run of decimal digits; NaN when that run is empty.
parseInt(value) ==
    LET i == SkipWhile(value, 1, WhiteSpace)
        neg == i <= Len(value) /\ value[i] = "-"
        j == IF i <= Len(value) /\ value[i] \in {"+", "-"} THEN i + 1 ELSE i
        e == SkipWhile(value, j, Digit)
        mag == DigitsValue(SubSeq(value, j, e - 1), 0)
    IN  IF e = j THEN NaN ELSE Num(IF neg THEN 0 - mag ELSE mag)

\* The relational operators of JavaScript on numbers: false when an operand is NaN.
Less(a, b) == a.t = "num" /\ b.t = "num" /\ a.v < b.v

Greater(a, b) == a.t = "num" /\ b.t = "num" /\ a.v > b.v

(* ------------------------------------------------------------------------ *)
(* validateInput (js/app.js lines 35-57)                                     *)
(* ------------------------------------------------------------------------ *)

MsgNotANumber == <<"Invalid input: Must be a number">>

MsgOutOfRange == <<"Input out of range", MIN_INPUT, MAX_INPUT>>

MsgNotInteger == <<"Invalid input: Integer required">>

MsgValidated == <<"Input validated">>

\* A validator whose range check turns away the largest order.
validateInputBelowMax(value) ==
    IF isNaN(value) \/ value = <<>>
    THEN [valid |-> FALSE, message |-> MsgNotANumber, value |-> Undefined]
    ELSE LET num == parseInt(value)
         IN  IF Less(num, Num(MIN_INPUT)) \/ ~ Less(num, Num(MAX_INPUT))
             THEN [valid |-> FALSE, message |-> MsgOutOfRange, value |-> Undefined]
             ELSE IF includes(value, ".") \/ includes(value, ",")
             THEN [valid |-> FALSE, message |-> MsgNotInteger, value |-> Undefined]
             ELSE [valid |-> TRUE, message |-> MsgValidated, value |-> num]

validateInput(value) ==
    IF isNaN(value) \/ value = <<>>
    THEN [valid |-> FALSE, message |-> MsgNotANumber, value |-> Undefined]
    ELSE LET num == parseInt(value)
         IN  IF Less(num, Num(MIN_INPUT)) \/ Greater(num, Num(MAX_INPUT))
             THEN [valid |-> FALSE, message |-> MsgOutOfRange, value |-> Undefined]
             ELSE IF includes(value, ".") \/ includes(value, ",")
             THEN [valid |-> FALSE, message |-> MsgNotInteger, value |-> Undefined]
             ELSE [valid |-> TRUE, message |-> MsgValidated, value |-> num]

(* ------------------------------------------------------------------------ *)
(* Numbers with a fraction: fixed point, eight decimal digits                *)
(*                                                                           *)
(* A real x is the integer floor(x * 10^8).  Math.sin is evaluated by its    *)
(* power series on the angle reduced to [0, pi/2]; the result is within      *)
(* 10^-7 of the real sine, as the IEEE double of the program is, and no      *)
(* value 2*sin((2k-1)*pi/(2n)) with n <= 21 lies closer than 10^-6 to a      *)
(* rounding boundary of four fractional digits.                              *)
(* ------------------------------------------------------------------------ *)

\* 10^4: the scale is 10^8, and the fixed-point product is taken on the two
\* halves of its operands.
HalfScale == 100 * 100

\* Math.PI
PI == 314159265

\* a * b for a, b >= 0
MulFix(a, b) ==
    LET ah == a \div HalfScale
        al == a % HalfScale
        bh == b \div HalfScale
        bl == b % HalfScale
    IN  ah * bh + (ah * bl + al * bh + (al * bl) \div HalfScale) \div HalfScale

\* (a * m) / d for a fixed-point a >= 0 and integers m >= 0, d > 0
MulDiv(a, m, d) == (a \div d) * m + ((a % d) * m) \div d

RECURSIVE SinSeries(_, _, _, _)
\* acc + term - term*x2/((i+1)(i+2)) + ...: the power series of the sine,
\* term being its term of degree i.
SinSeries(term, x2, i, acc) ==
    IF term = 0 THEN acc
    ELSE LET next == MulFix(term, x2) \div ((i + 1) * (i + 2))
         IN  IF (i \div 2) % 2 = 0
             THEN SinSeries(next, x2, i + 2, acc + term)
             ELSE SinSeries(next, x2, i + 2, acc - term)

\* Math.sin(x) for 0 <= x <= pi
sin(x) ==
    LET r == IF 2 * x > PI THEN PI - x ELSE x
    IN  SinSeries(r, MulFix(r, r), 1, 0)

RECURSIVE Pow10(_)
Pow10(d) == IF d = 0 THEN 1 ELSE 10 * Pow10(d - 1)

RECURSIVE PadDigits(_, _)
\* The last d decimal digits of i, leading zeros kept.
PadDigits(i, d) ==
    IF d = 0 THEN <<>>
    ELSE Append(PadDigits(i \div 10, d - 1), SubSeq(<<"0", "1", "2", "3", "4", "5", "6", "7", "8", "9">>, (i % 10) + 1, (i % 10) + 1)[1])

RECURSIVE IntDigits(_)
\* The decimal numeral of i >= 0.
IntDigits(i) == IF i < 10 THEN PadDigits(i, 1) ELSE IntDigits(i \div 10) \o PadDigits(i % 10, 1)

\* A toFixed that cuts the digits off instead of rounding.
toFixedTruncated(x, d) ==
    LET unit == Pow10(8 - d)
        r == x \div unit
    IN  IntDigits(r \div Pow10(d)) \o <<".">> \o PadDigits(r % Pow10(d), d)

\* Number.prototype.toFixed(d) of x >= 0, 1 <= d <= 8: x rounded to d fractional
\* digits, as the integer part, a point and exactly d digits.
toFixed(x, d) ==
    LET unit == Pow10(8 - d)
        r == (x + unit \div 2) \div unit
    IN  IntDigits(r \div Pow10(d)) \o <<".">> \o PadDigits(r % Pow10(d), d)

(* ------------------------------------------------------------------------ *)
(* calculateElements (js/app.js lines 91-101)                                *)
(* ------------------------------------------------------------------------ *)

capacitor == <<"c", "a", "p", "a", "c", "i", "t", "o", "r">>

inductor == <<"i", "n", "d", "u", "c", "t", "o", "r">>

\* Number of fractional digits of an element value.
ValueDigits == 4

\* A calculation that starts the ladder with a capacitor.
calculateElementsSwapped(k, n) ==
    LET elemento == IF k % 2 = 0 THEN inductor ELSE capacitor
        ak == 2 * sin(MulDiv(PI, 2 * k - 1, 2 * n))
        result == ak
    IN  [type |-> elemento, index |-> k, value |-> toFixed(result, ValueDigits)]

calculateElements(k, n) ==
    LET elemento == IF k % 2 = 0 THEN capacitor ELSE inductor
        ak == 2 * sin(MulDiv(PI, 2 * k - 1, 2 * n))
        result == ak
    IN  [type |-> elemento, index |-> k, value |-> toFixed(result, ValueDigits)]

\* The elements of every order the validator lets through, computed once.
ElementsOfOrder ==
    [n \in MIN_INPUT..MAX_INPUT |-> [k \in 1..n |-> calculateElements(k, n)]]

\* The loop of the submit handler: for (k = 1; k <= n; k++) elements.push(...);
\* k <= NaN is false.
CalculateLoop(n) ==
    IF n.t # "num" THEN <<>>
    ELSE IF n.v \in MIN_INPUT..MAX_INPUT THEN ElementsOfOrder[n.v]
    ELSE [k \in 1..n.v |-> calculateElements(k, n.v)]

(* ------------------------------------------------------------------------ *)
(* State                                                                     *)
(* ------------------------------------------------------------------------ *)

VARIABLES
    clock,            \* Date.now(), in milliseconds
    inputText,        \* nelement.value
    requestHistory,   \* the time stamps of the admitted submits
    resultField,      \* the children of #resultField, in document order
    inputValidation,  \* #inputValidation: textContent, className, style.display
    timers,           \* the pending setTimeout callbacks, the next to run first
    steps,            \* the calls the latest event handler made, in order
    rateLimitCheck,   \* its rateLimitCheck, if it called checkRateLimit
    validation,       \* its validation, if it called validateInput
    elements,         \* its elements array
    audit,            \* the audit records it wrote to the console
    expired,          \* the time stamps its checkRateLimit filtered out
    admitted          \* the times of the submits SubmitCounted saw admitted

vars == <<clock, inputText, requestHistory, resultField, inputValidation, timers,
          steps, rateLimitCheck, validation, elements, audit, expired, admitted>>

(* ------------------------------------------------------------------------ *)
(* checkRateLimit (js/app.js lines 66-85)                                    *)
(* ------------------------------------------------------------------------ *)

MsgRateLimit == <<"Rate limit exceeded", MAX_REQUESTS>>

Range(q) == {q[i] : i \in 1..Len(q)}

\* A filter that drops a time stamp a millisecond early.
InWindowShort(now, timestamp) == now - timestamp < TIME_WINDOW - 1

\* A filter that keeps a time stamp a whole window old.
InWindowClosed(now, timestamp) == now - timestamp <= TIME_WINDOW

\* requestHistory.filter(timestamp => now - timestamp < TIME_WINDOW)
InWindow(now, timestamp) == now - timestamp < TIME_WINDOW

Prune(history, now) == SelectSeq(history, LAMBDA timestamp : InWindow(now, timestamp))

\* A limit check that lets one request too many through.
LimitExceededLate(history) == Len(history) > MAX_REQUESTS

\* Whether the pruned history leaves room for one more request.
LimitExceeded(history) == Len(history) >= MAX_REQUESTS

\* A limiter that records a refused request in place of the oldest one.
checkRateLimitRecordingRefusals(history, now) ==
    LET pruned == Prune(history, now)
    IN  IF LimitExceeded(pruned)
        THEN [allowed |-> FALSE, message |-> MsgRateLimit, history |-> Append(Tail(pruned), now)]
        ELSE [allowed |-> TRUE, message |-> <<>>, history |-> Append(pruned, now)]

\* The result of checkRateLimit, with the requestHistory it leaves.
checkRateLimit(history, now) ==
    LET pruned == Prune(history, now)
    IN  IF LimitExceeded(pruned)
        THEN [allowed |-> FALSE, message |-> MsgRateLimit, history |-> pruned]
        ELSE [allowed |-> TRUE, message |-> <<>>, history |-> Append(pruned, now)]

\* The time stamps of history that the filter of checkRateLimit drops at now.
Expired(history, now) ==
    {history[i] : i \in {j \in 1..Len(history) : history[j] \notin Range(Prune(history, now))}}

(* ------------------------------------------------------------------------ *)
(* Timers (setTimeout)                                                       *)
(* ------------------------------------------------------------------------ *)

\* Delay of the reveal of the element at (zero-based) index i, in milliseconds.
RevealStep == 50

\* Delay of the auto-hide of a success message, in milliseconds.
HideDelay == 2000

RECURSIVE setTimeout(_, _)
\* The queue q with timer t added: timers run in the order of their due
\* times, and timers due together in the order they were set.
setTimeout(q, t) ==
    IF q = <<>> THEN <<t>>
    ELSE IF Head(q).due <= t.due THEN <<Head(q)>> \o setTimeout(Tail(q), t)
    ELSE <<t>> \o q

RECURSIVE SetAll(_, _)
SetAll(q, ts) == IF ts = <<>> THEN q ELSE SetAll(setTimeout(q, Head(ts)), Tail(ts))

\* Clearing #resultField detaches its children: the reveal timers still
\* pending then hold elements that are no longer in the document.
Detach(q) ==
    [i \in 1..Len(q) |-> IF q[i].kind = "reveal" THEN [q[i] EXCEPT !.attached = FALSE] ELSE q[i]]

(* ------------------------------------------------------------------------ *)
(* sanitizeHTML and renderResults (js/app.js lines 26-30, 106-132)           *)
(* ------------------------------------------------------------------------ *)

RECURSIVE sanitizeHTML(_)
\* textContent read back as innerHTML: &, < and > become entities.
sanitizeHTML(str) ==
    IF str = <<>> THEN <<>>
    ELSE (CASE Head(str) = "&" -> <<"&", "a", "m", "p", ";">>
            [] Head(str) = "<" -> <<"&", "l", "t", ";">>
            [] Head(str) = ">" -> <<"&", "g", "t", ";">>
            [] OTHER -> <<Head(str)>>) \o sanitizeHTML(Tail(str))

\* One child of #resultField: the icon, the text and whether it has class show.
ResultItem(element) ==
    [icon |-> IF element.type = capacitor THEN "capacitor-icon" ELSE "inductor-icon",
     text |-> <<"El", sanitizeHTML(element.type), element.index, "vale", element.value>>,
     show |-> FALSE]

\* The children appended by the forEach of renderResults.
Appended(elems) == [i \in 1..Len(elems) |-> ResultItem(elems[i])]

\* A renderer that does not clear the field first.
renderResultsAppending(field, elems) == field \o Appended(elems)

\* resultField.textContent = '' and then the children appended.
renderResults(field, elems) == Appended(elems)

\* The timers renderResults sets, in the order it sets them.
RevealTimers(elems, now) ==
    [i \in 1..Len(elems) |->
        [kind |-> "reveal", due |-> now + (i - 1) * RevealStep, target |-> i, attached |-> TRUE]]

(* ------------------------------------------------------------------------ *)
(* showValidationMessage (js/app.js lines 137-147)                           *)
(* ------------------------------------------------------------------------ *)

HideTimer(now) == [kind |-> "hide", due |-> now + HideDelay, target |-> 0, attached |-> TRUE]

\* The message region after showValidationMessage(message, isError).
Shown(message, isError) ==
    [textContent |-> message,
     className |-> IF isError THEN "input-validation error" ELSE "input-validation success",
     display |-> "block"]

\* The timer queue after showValidationMessage(message, isError).
ShownTimers(q, isError, now) == IF isError THEN q ELSE setTimeout(q, HideTimer(now))

(* ------------------------------------------------------------------------ *)
(* The event handlers (js/app.js lines 152-162, 167-203)                     *)
(*                                                                           *)
(* A handler is a function of the page state st, a record of the variables   *)
(* it may write, the text of the input field and the time.                   *)
(* ------------------------------------------------------------------------ *)

Page ==
    [requestHistory |-> requestHistory, resultField |-> resultField,
     inputValidation |-> inputValidation, timers |-> timers,
     steps |-> <<>>, rateLimitCheck |-> <<>>, validation |-> <<>>,
     elements |-> <<>>, audit |-> <<>>, expired |-> {}]

\* showValidationMessage(message, isError) on the page st
showValidationMessage(st, message, isError, now) ==
    [st EXCEPT !.inputValidation = Shown(message, isError),
               !.timers = ShownTimers(st.timers, isError, now),
               !.steps = Append(st.steps, "showValidationMessage")]

\* The record the submit handler writes to the console (lines 196-202).
AuditRecord(st, n, elems, now) ==
    [timestamp |-> now, action |-> "CALCULATION_PERFORMED", input |-> n,
     elements |-> Len(elems), requestCount |-> Len(st.requestHistory)]

\* A calculation that takes the number of stored requests for the order.
CalculateByRequestCount(st, n, now) ==
    LET elems == CalculateLoop(Num(Len(st.requestHistory)))
        rendered == [st EXCEPT !.elements = elems,
                               !.resultField = renderResults(st.resultField, elems),
                               !.timers = SetAll(Detach(st.timers), RevealTimers(elems, now)),
                               !.steps = st.steps \o <<"calculateElements", "renderResults">>]
    IN  [rendered EXCEPT !.audit = <<AuditRecord(rendered, n, elems, now)>>,
                         !.steps = Append(rendered.steps, "audit")]

\* A calculation that writes the audit record before it renders.
CalculateAuditFirst(st, n, now) ==
    LET elems == CalculateLoop(n)
        logged == [st EXCEPT !.elements = elems,
                             !.audit = <<AuditRecord(st, n, elems, now)>>,
                             !.steps = st.steps \o <<"calculateElements", "audit">>]
    IN  [logged EXCEPT !.resultField = renderResults(st.resultField, elems),
                       !.timers = SetAll(Detach(st.timers), RevealTimers(elems, now)),
                       !.steps = Append(logged.steps, "renderResults")]

\* Lines 184-202: the calculation loop, renderResults and the audit record.
Calculate(st, n, now) ==
    LET elems == CalculateLoop(n)
        rendered == [st EXCEPT !.elements = elems,
                               !.resultField = renderResults(st.resultField, elems),
                               !.timers = SetAll(Detach(st.timers), RevealTimers(elems, now)),
                               !.steps = st.steps \o <<"calculateElements", "renderResults">>]
    IN  [rendered EXCEPT !.audit = <<AuditRecord(rendered, n, elems, now)>>,
                         !.steps = Append(rendered.steps, "audit")]

\* A validation step that clears the results of a text it rejects.
ValidateClearing(st, text, now) ==
    LET v == validateInput(text)
        validated == [st EXCEPT !.validation = <<v>>,
                                !.steps = Append(st.steps, "validateInput")]
    IN  IF ~ v.valid
        THEN showValidationMessage([validated EXCEPT !.resultField = <<>>], v.message, TRUE, now)
        ELSE Calculate(validated, v.value, now)

\* Lines 177-202: validation of the input, then the calculation.
Validate(st, text, now) ==
    LET v == validateInput(text)
        validated == [st EXCEPT !.validation = <<v>>,
                                !.steps = Append(st.steps, "validateInput")]
    IN  IF ~ v.valid
        THEN showValidationMessage(validated, v.message, TRUE, now)
        ELSE Calculate(validated, v.value, now)

\* A submit handler that shows the rate limit message and goes on.
submitHandlerNoReturn(st, text, now) ==
    LET check == checkRateLimit(st.requestHistory, now)
        checked == [st EXCEPT !.requestHistory = check.history,
                              !.expired = Expired(st.requestHistory, now),
                              !.rateLimitCheck = <<[allowed |-> check.allowed, message |-> check.message]>>,
                              !.steps = Append(st.steps, "checkRateLimit")]
    IN  IF ~ check.allowed
        THEN Validate(showValidationMessage(checked, check.message, TRUE, now), text, now)
        ELSE Validate(checked, text, now)

\* A submit handler that validates first and charges the rate limiter only
\* for a valid input.
submitHandlerValidateFirst(st, text, now) ==
    LET v == validateInput(text)
        validated == [st EXCEPT !.validation = <<v>>,
                                !.steps = Append(st.steps, "validateInput")]
        check == checkRateLimit(st.requestHistory, now)
        checked == [validated EXCEPT !.requestHistory = check.history,
                                     !.expired = Expired(st.requestHistory, now),
                                     !.rateLimitCheck = <<[allowed |-> check.allowed, message |-> check.message]>>,
                                     !.steps = Append(validated.steps, "checkRateLimit")]
    IN  IF ~ v.valid
        THEN showValidationMessage(validated, v.message, TRUE, now)
        ELSE IF ~ check.allowed
        THEN showValidationMessage(checked, check.message, TRUE, now)
        ELSE Calculate(checked, v.value, now)

\* Lines 170-175: the rate limiting check, which ends the handler when it fails.
submitHandler(st, text, now) ==
    LET check == checkRateLimit(st.requestHistory, now)
        checked == [st EXCEPT !.requestHistory = check.history,
                              !.expired = Expired(st.requestHistory, now),
                              !.rateLimitCheck = <<[allowed |-> check.allowed, message |-> check.message]>>,
                              !.steps = Append(st.steps, "checkRateLimit")]
    IN  IF ~ check.allowed
        THEN showValidationMessage(checked, check.message, TRUE, now)
        ELSE Validate(checked, text, now)

\* An input handler that clears the results of a text it rejects.
inputHandlerClearing(st, text, now) ==
    LET v == validateInput(text)
        validated == [st EXCEPT !.validation = <<v>>,
                                !.steps = Append(st.steps, "validateInput")]
    IN  IF ~ v.valid /\ text # <<>>
        THEN showValidationMessage([validated EXCEPT !.resultField = <<>>], v.message, TRUE, now)
        ELSE IF v.valid
        THEN showValidationMessage(validated, v.message, FALSE, now)
        ELSE [validated EXCEPT !.inputValidation.display = "none"]

\* Lines 152-162: the input handler.
inputHandler(st, text, now) ==
    LET v == validateInput(text)
        validated == [st EXCEPT !.validation = <<v>>,
                                !.steps = Append(st.steps, "validateInput")]
    IN  IF ~ v.valid /\ text # <<>>
        THEN showValidationMessage(validated, v.message, TRUE, now)
        ELSE IF v.valid
        THEN showValidationMessage(validated, v.message, FALSE, now)
        ELSE [validated EXCEPT !.inputValidation.display = "none"]

\* A reveal callback that looks its element up by index in the field.
timerCallbackByIndex(st, t) ==
    IF t.kind = "hide"
    THEN [st EXCEPT !.inputValidation.display = "none"]
    ELSE IF t.target <= Len(st.resultField) THEN [st EXCEPT !.resultField[t.target].show = TRUE]
    ELSE st

\* The callback of the timer t (lines 128-130, 143-145).
timerCallback(st, t) ==
    IF t.kind = "hide"
    THEN [st EXCEPT !.inputValidation.display = "none"]
    ELSE IF t.attached THEN [st EXCEPT !.resultField[t.target].show = TRUE]
    ELSE st

(* ------------------------------------------------------------------------ *)
(* Actions                                                                   *)
(* ------------------------------------------------------------------------ *)

\* The instants the clock is read at: every multiple of the window and the
\* millisecond after it (0, 1, 60000, 60001, 120000, ...), so that time
\* stamps get 59999, 60000 and 60001 ms old.
Instant(i) == TIME_WINDOW * (i \div 2) + (i % 2)

\* The timers of q left over from earlier events.
Leftover(q) == Cardinality({i \in 1..Len(q) : q[i].kind = "hide" \/ ~ q[i].attached})

Init ==
    /\ clock = Instant(0)
    /\ inputText = <<>>
    /\ requestHistory = <<>>
    /\ resultField = <<>>
    /\ inputValidation = [textContent |-> <<>>, className |-> "input-validation", display |-> ""]
    /\ timers = <<>>
    /\ steps = <<>>
    /\ rateLimitCheck = <<>>
    /\ validation = <<>>
    /\ elements = <<>>
    /\ audit = <<>>
    /\ expired = {}
    /\ admitted = <<>>

\* The handler's writes become the next state.
Becomes(st) ==
    /\ requestHistory' = st.requestHistory
    /\ resultField' = st.resultField
    /\ inputValidation' = st.inputValidation
    /\ timers' = st.timers
    /\ steps' = st.steps
    /\ rateLimitCheck' = st.rateLimitCheck
    /\ validation' = st.validation
    /\ elements' = st.elements
    /\ audit' = st.audit
    /\ expired' = st.expired

\* Time passes: Date.now() does not go back.
Tick ==
    /\ \E i \in 0..MaxTick : Instant(i) > clock /\ clock' = Instant(i)
    /\ UNCHANGED <<inputText, requestHistory, resultField, inputValidation, timers,
                   steps, rateLimitCheck, validation, elements, audit, expired, admitted>>

\* The user edits the input field to text: the input event.
InputChange(text) ==
    /\ UNCHANGED <<clock, admitted>>
    /\ inputText' = text
    /\ Becomes(inputHandler(Page, text, clock))
    /\ Leftover(timers') <= MaxLeftover

\* The user submits the form: the submit event.
Submit ==
    /\ UNCHANGED <<clock, inputText, admitted>>
    /\ Becomes(submitHandler(Page, inputText, clock))
    /\ Leftover(timers') <= MaxLeftover

\* The submit event, with the time of the submit put on record when
\* checkRateLimit allowed it.
SubmitCounted ==
    /\ UNCHANGED <<clock, inputText>>
    /\ Becomes(submitHandler(Page, inputText, clock))
    /\ Leftover(timers') <= MaxLeftover
    /\ admitted' = IF rateLimitCheck'[1].allowed THEN Append(admitted, clock) ELSE admitted

\* Time passes until the next pending timer is due.
Elapse ==
    /\ timers # <<>>
    /\ Head(timers).due > clock
    /\ clock' = Head(timers).due
    /\ UNCHANGED <<inputText, requestHistory, resultField, inputValidation, timers,
                   steps, rateLimitCheck, validation, elements, audit, expired, admitted>>

\* The user is at the page for the first MaxTick reveal steps.
UserPresent == clock <= RevealStep * MaxTick

InputChangeEarly(text) == UserPresent /\ InputChange(text)

SubmitEarly == UserPresent /\ Submit

\* The timer that is due first runs.
FireTimer ==
    /\ timers # <<>>
    /\ Head(timers).due <= clock
    /\ LET st == timerCallback([Page EXCEPT !.timers = Tail(timers)], Head(timers))
       IN  /\ resultField' = st.resultField
           /\ inputValidation' = st.inputValidation
           /\ timers' = st.timers
    /\ UNCHANGED <<clock, inputText, requestHistory, steps, rateLimitCheck,
                   validation, elements, audit, expired, admitted>>

(* ------------------------------------------------------------------------ *)
(* Specifications                                                            *)
(* ------------------------------------------------------------------------ *)

\* The texts typed into the field in Spec: two orders and a word (the field
\* is empty at first).
Texts == { <<"1">>, <<"2">>, <<"a", "b", "c">> }

Next ==
    \/ Tick
    \/ \E text \in Texts : InputChange(text)
    \/ Submit
    \/ FireTimer

Spec == Init /\ [][Next]_vars

\* The validator on every short text: the page is loaded with any text of at
\* most MaxLen characters, or one of OtherTexts, in the field; the user submits
\* it, or edits it and restores it, and the clock stands still.
AllTexts == UNION { [1..n -> Alphabet] : n \in 0..MaxLen }

OtherTexts ==
    { <<"a", "b", "c">>, <<"3", ".", "5">>, <<"1", ",", "5">>, <<"2", "5", ".", "5">>,
      <<"0", ".", "5">>, <<" ", "7", " ">>, <<" ", " ", " ">>, <<"1", "e", "1">>,
      <<"0", "x", "1", "f">>, <<"1", "0", "0">>, InfinityText, <<"-">> \o InfinityText }

TextInputs == AllTexts \cup OtherTexts

InitValidate ==
    /\ clock = Instant(0)
    /\ inputText \in TextInputs
    /\ requestHistory = <<>>
    /\ resultField = <<>>
    /\ inputValidation = [textContent |-> <<>>, className |-> "input-validation", display |-> ""]
    /\ timers = <<>>
    /\ steps = <<>>
    /\ rateLimitCheck = <<>>
    /\ validation = <<>>
    /\ elements = <<>>
    /\ audit = <<>>
    /\ expired = {}
    /\ admitted = <<>>

NextValidate ==
    \/ \E text \in {inputText} : InputChange(text)
    \/ Submit
    \/ FireTimer

SpecValidate == InitValidate /\ [][NextValidate]_vars

\* The calculation on every order: the numerals of MIN_INPUT..MAX_INPUT are
\* typed and submitted, and the clock stands still.
OrderTexts == { IntDigits(n) : n \in MIN_INPUT..MAX_INPUT }

NextOrders ==
    \/ \E text \in OrderTexts : InputChange(text)
    \/ Submit
    \/ FireTimer

SpecOrders == Init /\ [][NextOrders]_vars

\* The reveal animation: the user types and submits for a while and then
\* leaves the page alone; time passes from one timer to the next, and a timer
\* that is due runs (the event loop runs a due callback once the handler
\* before it has returned).
NextReveal ==
    \/ Elapse
    \/ \E text \in Texts : InputChangeEarly(text)
    \/ SubmitEarly
    \/ FireTimer

SpecReveal == Init /\ [][NextReveal]_vars /\ WF_vars(FireTimer) /\ WF_vars(Elapse)

\* The rate limiter over time: the form is submitted again and again while
\* time passes, and the time of every admitted submit is kept on record.
NextLimiter ==
    \/ Tick
    \/ SubmitCounted

SpecLimiter == Init /\ [][NextLimiter]_vars

(* ------------------------------------------------------------------------ *)
(* Properties                                                                *)
(* ------------------------------------------------------------------------ *)

\* The result of the checkRateLimit call of the step, and the history it kept
\* of the one it found (the time stamp it added set aside).
Allowed == rateLimitCheck' # <<>> /\ rateLimitCheck'[1].allowed

Kept ==
    IF Allowed THEN SubSeq(requestHistory', 1, Len(requestHistory') - 1)
    ELSE requestHistory'

\* All stored time stamps lie in the window of 60000 ms that ends now.
OneWindow == \A i \in 1..Len(requestHistory) :
    requestHistory[i] <= clock /\ clock - requestHistory[i] < 60000

\* C1: while all time stamps lie inside one window of 60000 ms, a
\* checkRateLimit call is allowed if and only if fewer than 10 time stamps
\* are stored, and a call that is not allowed returns a message: so, from an
\* empty history, 10 calls at one instant are allowed and the 11th is not.
C1_AllowedIffFewerThanTen ==
    [][(Submit /\ OneWindow) =>
          /\ rateLimitCheck' # <<>>
          /\ rateLimitCheck'[1].allowed <=> (Len(requestHistory) < 10)
          /\ ~ rateLimitCheck'[1].allowed => rateLimitCheck'[1].message # <<>>]_vars

\* The 11th call at one instant has been refused.
C1_Witness ==
    /\ Len(requestHistory) = 10
    /\ \A i \in 1..10 : requestHistory[i] = clock
    /\ rateLimitCheck # <<>>
    /\ ~ rateLimitCheck[1].allowed
    /\ rateLimitCheck[1].message # <<>>

\* C2 as stated: the prune of a checkRateLimit call at now removes exactly
\* the time stamps t < now - 60000, so that one exactly 60000 ms old stays.
C2_Original ==
    [][Submit =>
          Kept = SelectSeq(requestHistory, LAMBDA t : ~ (t < clock - 60000))]_vars

\* C2, amended: the prune of a checkRateLimit call at now removes exactly the
\* time stamps t <= now - 60000 and keeps every other one, so a time stamp
\* exactly 60000 ms old is no longer counted while one 59999 ms old is; after
\* the prune every stored time stamp t has now - 60000 < t <= now.
C2_PruneDropsWholeWindowOld ==
    [][Submit =>
          /\ Kept = SelectSeq(requestHistory, LAMBDA t : ~ (t <= clock - 60000))
          /\ \A i \in 1..Len(requestHistory') :
                clock - 60000 < requestHistory'[i] /\ requestHistory'[i] <= clock]_vars

\* A call has just dropped a time stamp exactly 60000 ms old and kept a
\* younger one.
C2_Witness ==
    /\ rateLimitCheck # <<>>
    /\ \E t \in expired : clock - t = 60000
    /\ \E i \in 1..Len(requestHistory) : requestHistory[i] < clock

\* The decimal numerals of 1 to 20, by their value.
Numeral ==
    [n \in 1..20 |->
        IF n < 10 THEN <<PadDigits(n, 1)[1]>> ELSE <<PadDigits(n \div 10, 1)[1], PadDigits(n % 10, 1)[1]>>]

\* C3: validateInput returns valid=false for each of the texts "", "abc",
\* "0", "21", "3.5" and "1,5", and for every numeral "1" to "20" it returns
\* valid=true with the integer the numeral denotes as value.
C3_RejectsAndAccepts ==
    validation # <<>> =>
        /\ inputText \in { <<>>, <<"a", "b", "c">>, <<"0">>, <<"2", "1">>,
                           <<"3", ".", "5">>, <<"1", ",", "5">> }
              => ~ validation[1].valid
        /\ \A n \in 1..20 : inputText = Numeral[n] =>
              validation[1].valid /\ validation[1].value = [t |-> "num", v |-> n]

\* The validator has accepted "20".
C3_Witness ==
    /\ inputText = <<"2", "0">>
    /\ validation # <<>>
    /\ validation[1].valid
    /\ validation[1].value = [t |-> "num", v |-> 20]

\* C4: validateInput returns valid=false with the not-a-number message for
\* every input whose trimmed text is empty, white space alone included, and
\* for every input that is not parseable as a number.
C4_BlankOrUnparseableIsNotANumber ==
    (validation # <<>> /\ (Trim(inputText) = <<>> \/ NumberIsNaN(inputText))) =>
        /\ ~ validation[1].valid
        /\ validation[1].message = <<"Invalid input: Must be a number">>

\* The latest event was a submit that passed the rate limit and the validator.
Calculated == Len(steps) >= 3 /\ steps[3] = "calculateElements"

\* C5: the n with which the calculation loop of the submit handler runs, the
\* value of a validation that returned valid=true, is an integer with
\* 1 <= n <= 20, never NaN.
C5_OrderIsIntegerInRange ==
    Calculated =>
        /\ validation[1].valid
        /\ validation[1].value.t = "num"
        /\ validation[1].value.v \in 1..20
        /\ \A i \in 1..Len(audit) : audit[i].input = validation[1].value

\* C6: a successful submit with an order n in [1, 20] produces exactly n
\* elements, whose index fields are 1, 2, ..., n in that order and whose type
\* is inductor at an odd index and capacitor at an even one.
C6_ElementsOfOrder ==
    \A n \in 1..20 :
        (Calculated /\ inputText = Numeral[n]) =>
            /\ Len(elements) = n
            /\ \A k \in 1..n :
                  /\ elements[k].index = k
                  /\ elements[k].type =
                        IF k % 2 = 1 THEN <<"i", "n", "d", "u", "c", "t", "o", "r">>
                        ELSE <<"c", "a", "p", "a", "c", "i", "t", "o", "r">>

\* The order 20 has been submitted and its 20 elements computed.
C6_Witness ==
    /\ Calculated
    /\ inputText = <<"2", "0">>
    /\ Len(elements) = 20
    /\ elements[1].type = inductor
    /\ elements[20].type = capacitor

\* The number a decimal string with four fractional digits denotes, in units
\* of 10^-4; -1 when the string has another form.
TenThousandths(str) ==
    LET p == SkipWhile(str, 1, Digit)
    IN  IF /\ p > 1
           /\ Len(str) = p + 4
           /\ str[p] = "."
           /\ SkipWhile(str, p + 1, Digit) = Len(str) + 1
        THEN DigitsValue(SubSeq(str, 1, p - 1) \o SubSeq(str, p + 1, Len(str)), 0)
        ELSE 0 - 1

\* C7: for n in [1, 20] and k in [1, n] the value of element k is a decimal
\* string with exactly 4 fractional digits, the nearest such to
\* 2*sin((2k-1)*pi/(2n)); for n = 4 the elements are (inductor, 1, 0.7654),
\* (capacitor, 2, 1.8478), (inductor, 3, 1.8478), (capacitor, 4, 0.7654).
C7_ValuesRoundedToFourDigits ==
    \A n \in 1..20 :
        (Calculated /\ inputText = Numeral[n]) =>
            /\ \A k \in 1..Len(elements) :
                  LET v == TenThousandths(elements[k].value)
                      exact == 2 * sin(MulDiv(PI, 2 * k - 1, 2 * n))
                  IN  /\ v >= 0
                      /\ 10000 * v - 5000 <= exact
                      /\ exact < 10000 * v + 5000
            /\ n = 4 =>
                  elements = << [type |-> inductor, index |-> 1, value |-> <<"0", ".", "7", "6", "5", "4">>],
                                [type |-> capacitor, index |-> 2, value |-> <<"1", ".", "8", "4", "7", "8">>],
                                [type |-> inductor, index |-> 3, value |-> <<"1", ".", "8", "4", "7", "8">>],
                                [type |-> capacitor, index |-> 4, value |-> <<"0", ".", "7", "6", "5", "4">>] >>

\* The order 4 has been submitted and its elements computed.
C7_Witness ==
    /\ Calculated
    /\ inputText = <<"4">>
    /\ Len(elements) = 4
    /\ elements[1].value = <<"0", ".", "7", "6", "5", "4">>

\* The display unit of an element: its icon and its sentence.
Unit(element) ==
    [icon |-> IF element.type = capacitor THEN "capacitor-icon" ELSE "inductor-icon",
     text |-> <<"El", element.type, element.index, "vale", element.value>>]

\* C8: after a successful submit the output region holds exactly the display
\* units of that submit's batch, in index order, and nothing of an earlier
\* batch.
C8_OnlyLatestBatch ==
    Calculated =>
        /\ Len(resultField) = Len(elements)
        /\ \A i \in 1..Len(resultField) :
              /\ elements[i].index = i
              /\ [icon |-> resultField[i].icon, text |-> resultField[i].text] = Unit(elements[i])

\* A batch of one element has replaced a batch of two: the reveal timer of
\* the second element of the earlier batch is still pending.
C8_Witness ==
    /\ Calculated
    /\ Len(elements) = 1
    /\ Len(resultField) = 1
    /\ \E i \in 1..Len(timers) :
          timers[i].kind = "reveal" /\ ~ timers[i].attached /\ timers[i].target = 2

\* C9: a submit runs the rate limit check first, and when that check says
\* not allowed the handler shows its message and stops: it does not
\* validate, calculate, render or write an audit record, whatever the text.
C9_RateLimitFirstAndFinal ==
    [][Submit =>
          /\ steps'[1] = "checkRateLimit"
          /\ ~ rateLimitCheck'[1].allowed =>
                /\ steps' = <<"checkRateLimit", "showValidationMessage">>
                /\ validation' = <<>>
                /\ elements' = <<>>
                /\ audit' = <<>>
                /\ resultField' = resultField
                /\ inputValidation'.textContent = rateLimitCheck'[1].message
                /\ inputValidation'.className = "input-validation error"]_vars

\* A submit of a valid text has been refused by the rate limiter.
C9_Witness ==
    /\ rateLimitCheck # <<>>
    /\ ~ rateLimitCheck[1].allowed
    /\ inputText = <<"2">>
    /\ steps = <<"checkRateLimit", "showValidationMessage">>
    /\ inputValidation.textContent = MsgRateLimit

\* C10: a submit that the rate limiter admits records its time stamp even
\* when the input then fails validation; and once 10 time stamps of this
\* window are stored the next submit is refused, whatever its input.
C10_InvalidSubmitIsCharged ==
    [][Submit =>
          /\ (Len(requestHistory) < 10 /\ ~ validateInput(inputText).valid) =>
                /\ validation' # <<>>
                /\ ~ validation'[1].valid
                /\ requestHistory' # <<>>
                /\ requestHistory'[Len(requestHistory')] = clock
                /\ audit' = <<>>
          /\ (Len(requestHistory) = 10 /\ OneWindow) =>
                /\ ~ rateLimitCheck'[1].allowed
                /\ requestHistory' = requestHistory]_vars

\* Ten submits at one instant were recorded while nothing was rendered, and
\* the submit of a valid text has then been refused.
C10_Witness ==
    /\ Len(requestHistory) = 10
    /\ \A i \in 1..10 : requestHistory[i] = clock
    /\ resultField = <<>>
    /\ \A i \in 1..Len(timers) : timers[i].kind # "reveal"
    /\ inputText = <<"1">>
    /\ validateInput(inputText).valid
    /\ rateLimitCheck # <<>>
    /\ ~ rateLimitCheck[1].allowed

\* C11: a submit that passes both the rate limit check and the validation
\* emits exactly one audit record, with the action CALCULATION_PERFORMED,
\* and emits it after rendering; a submit that is refused by the rate limiter
\* or fails validation emits none, and neither does an input change.
C11_OneAuditRecordAfterRendering ==
    [][/\ Submit =>
              IF /\ Len(SelectSeq(requestHistory, LAMBDA t : clock - t < 60000)) < 10
                 /\ validateInput(inputText).valid
              THEN /\ Len(audit') = 1
                   /\ audit'[1].action = "CALCULATION_PERFORMED"
                   /\ Len(SelectSeq(steps', LAMBDA s : s = "audit")) = 1
                   /\ steps'[Len(steps')] = "audit"
                   /\ steps'[Len(steps') - 1] = "renderResults"
              ELSE /\ audit' = <<>>
                   /\ SelectSeq(steps', LAMBDA s : s = "audit") = <<>>
       /\ InputChange(inputText') =>
              /\ audit' = <<>>
              /\ SelectSeq(steps', LAMBDA s : s = "audit") = <<>>]_vars

\* The order 2 has been submitted, rendered and then logged once.
C11_Witness ==
    /\ inputText = <<"2">>
    /\ steps = <<"checkRateLimit", "validateInput", "calculateElements", "renderResults", "audit">>
    /\ Len(resultField) = 2
    /\ Len(audit) = 1
    /\ audit[1].action = "CALCULATION_PERFORMED"

\* C12: the elements a successful submit computes are a function of the order
\* n alone: whatever the request history, the clock and the earlier events,
\* the submit of the numeral of n computes the same sequence, and a submit
\* that follows a successful submit of the same text, both admitted with the
\* time stamp of the first still stored, computes and displays the sequence
\* that submit did.
C12_ElementsDependOnOrderOnly ==
    [][(Submit /\ Calculated') =>
          /\ \A n \in 1..20 : inputText = Numeral[n] =>
                elements' = [k \in 1..n |-> calculateElements(k, n)]
          /\ Calculated =>
                /\ elements' = elements
                /\ Len(resultField') = Len(resultField)
                /\ \A i \in 1..Len(resultField) :
                      /\ resultField'[i].icon = resultField[i].icon
                      /\ resultField'[i].text = resultField[i].text]_vars

\* The order 2 has been submitted a second time, later than a submit whose
\* time stamp is still stored, while the reveal timer of the second element of
\* the earlier render is pending.
C12_Witness ==
    /\ Calculated
    /\ inputText = <<"2">>
    /\ Len(elements) = 2
    /\ Len(requestHistory) >= 2
    /\ requestHistory[1] < clock
    /\ clock - requestHistory[1] < 60000
    /\ \E i \in 1..Len(timers) :
          timers[i].kind = "reveal" /\ ~ timers[i].attached /\ timers[i].target = 2

\* C13: an error message shown by an input change or by a failed submit
\* stays visible until the next input change or submit: no timer callback,
\* the auto-hide timer of an earlier success message included, and no passage
\* of time hides or alters it.
C13_ErrorMessageStaysVisible ==
    [][(/\ inputValidation.className = "input-validation error"
        /\ inputValidation.display = "block"
        /\ FireTimer \/ Tick) => inputValidation' = inputValidation]_vars

\* The text holds a decimal point and denotes a number (0.5 for ".5").
NumericWithPoint == ~ NumberIsNaN(inputText) /\ includes(inputText, ".")

\* The integer part of the number the text denotes is one of 1, ..., 20.
IntegerPartInRange ==
    LET num == parseInt(inputText) IN num.t = "num" /\ num.v \in 1..20

\* C14: the rules of validateInput apply in the order not-a-number, out of
\* range, not-integer, and the first that fails decides the message: a text
\* that denotes a number outside [1, 20] and holds a decimal point ("25.5",
\* "0.5") is reported as out of range, a numeric text in range that holds a
\* decimal point as not integer, and a text that does not denote a number
\* as not a number, a comma or a point in it notwithstanding.
C14_FirstFailingRuleDecides ==
    validation # <<>> =>
        /\ (NumericWithPoint /\ ~ IntegerPartInRange) =>
              ~ validation[1].valid /\ validation[1].message = <<"Input out of range", 1, 20>>
        /\ (NumericWithPoint /\ IntegerPartInRange) =>
              ~ validation[1].valid /\ validation[1].message = <<"Invalid input: Integer required">>
        /\ NumberIsNaN(inputText) =>
              ~ validation[1].valid /\ validation[1].message = <<"Invalid input: Must be a number">>

\* C15: a checkRateLimit call that returns not allowed records no time
\* stamp: it leaves the pruned history, which is the history it found, so
\* the oldest stamp, whose expiry ends the lockout, stays the oldest; an
\* allowed call leaves the pruned history with now appended last, one entry
\* more.
C15_RefusalRecordsNothing ==
    [][Submit =>
          LET pruned == SelectSeq(requestHistory, LAMBDA t : clock - t < 60000)
          IN  IF rateLimitCheck'[1].allowed
              THEN /\ requestHistory' = Append(pruned, clock)
                   /\ Len(requestHistory') = Len(pruned) + 1
              ELSE /\ requestHistory' = pruned
                   /\ requestHistory' = requestHistory
                   /\ clock \in Range(requestHistory') => clock \in Range(requestHistory)]_vars

\* A submit has been refused later than the oldest stored time stamp, and the
\* stored time stamps are still the 10 that were there.
C15_Witness ==
    /\ rateLimitCheck # <<>>
    /\ ~ rateLimitCheck[1].allowed
    /\ Len(requestHistory) = 10
    /\ requestHistory[1] < clock
    /\ requestHistory[10] < clock

\* C16: every audit record written has the fields timestamp, action, input,
\* elementCount and requestCount; input is the validated order n, an
\* integer, elementCount is the number of elements rendered, which is n, and
\* requestCount is the number of time stamps stored once this submit was
\* recorded, between 1 and 10.
C16_AuditRecordFields ==
    \A i \in 1..Len(audit) :
        /\ DOMAIN audit[i] = {"timestamp", "action", "input", "elementCount", "requestCount"}
        /\ audit[i].input = validation[1].value
        /\ audit[i].input.t = "num"
        /\ audit[i].elementCount = Len(resultField)
        /\ audit[i].elementCount = audit[i].input.v
        /\ audit[i].requestCount = Len(requestHistory)
        /\ audit[i].requestCount \in 1..10

\* What the output region displays: the icon and the sentence of each child.
Content(field) == [i \in 1..Len(field) |-> [icon |-> field[i].icon, text |-> field[i].text]]

\* C17 as stated: an input change and every timer callback leave the request
\* history and the output region unchanged.
C17_Original ==
    [][(InputChange(inputText') \/ FireTimer) =>
          /\ requestHistory' = requestHistory
          /\ resultField' = resultField]_vars

\* C17, amended: an input change and every timer callback leave the request
\* history unchanged and the content of the output region unchanged; an
\* input change and an auto-hide callback leave the whole output region
\* unchanged, and a reveal callback changes at most the show mark of the one
\* element it was set for, from unset to set.
C17_HistoryAndContentUntouched ==
    [][(InputChange(inputText') \/ FireTimer) =>
          /\ requestHistory' = requestHistory
          /\ Content(resultField') = Content(resultField)
          /\ (InputChange(inputText') \/ Head(timers).kind = "hide") => resultField' = resultField
          /\ \A i \in 1..Len(resultField) :
                resultField'[i] # resultField[i] =>
                    /\ Head(timers).kind = "reveal"
                    /\ Head(timers).target = i
                    /\ ~ resultField[i].show
                    /\ resultField'[i].show]_vars

\* The reveal callback of the second element has run, after an input change
\* to a text that is no number, while two time stamps are stored and both
\* elements are displayed.
C17_Witness ==
    /\ Len(requestHistory) = 2
    /\ inputText = <<"a", "b", "c">>
    /\ steps = <<"validateInput", "showValidationMessage">>
    /\ Len(resultField) = 2
    /\ resultField[2].show
    /\ timers = <<>>

\* The number of admitted submits at the times t with from <= t and t < to.
AdmittedIn(from, to) ==
    Cardinality({i \in 1..Len(admitted) : from <= admitted[i] /\ admitted[i] < to})

\* C18: with a clock that does not go back, every interval of 60000 ms, open
\* at one end, holds at most 10 submits the rate limiter admitted (it is
\* enough to look at the intervals that begin or end at an admitted submit),
\* and the request history never holds more than 10 time stamps.
C18_AtMostTenPerWindow ==
    /\ Len(requestHistory) <= 10
    /\ \A i \in 1..Len(admitted) :
          /\ AdmittedIn(admitted[i], admitted[i] + 60000) <= 10
          /\ AdmittedIn(admitted[i] - 60000 + 1, admitted[i] + 1) <= 10
          /\ \A j \in 1..i : admitted[j] <= admitted[i]

\* More than 10 submits have been admitted in all, among them submits 59999
\* ms apart, and the interval that begins with the earlier of these is full:
\* the submit at its end has been refused.
C18_Witness ==
    /\ Len(admitted) > 10
    /\ \E i, j \in 1..Len(admitted) : admitted[j] - admitted[i] = 59999
    /\ AdmittedIn(clock - 59999, clock + 1) = 10
    /\ rateLimitCheck # <<>>
    /\ ~ rateLimitCheck[1].allowed

\* C19: a submit that fails, refused by the rate limiter or for an invalid
\* input, leaves the output region as it was, the pending timers included:
\* the results of the last successful submit stay displayed; it changes the
\* message region, which shows the error, and the request history only when
\* it was admitted, by its own time stamp.
C19_FailedSubmitKeepsResults ==
    [][(Submit /\ ~ Calculated') =>
          /\ resultField' = resultField
          /\ timers' = timers
          /\ inputValidation'.display = "block"
          /\ inputValidation'.className = "input-validation error"
          /\ inputValidation'.textContent =
                IF rateLimitCheck'[1].allowed THEN validation'[1].message
                ELSE rateLimitCheck'[1].message
          /\ requestHistory' # requestHistory =>
                /\ rateLimitCheck'[1].allowed
                /\ ~ validation'[1].valid
                /\ requestHistory'[Len(requestHistory')] = clock]_vars

\* The results of the order 2 are displayed, its second element not yet
\* revealed, after a submit of a text that is no number failed validation.
C19_Witness ==
    /\ inputText = <<"a", "b", "c">>
    /\ steps = <<"checkRateLimit", "validateInput", "showValidationMessage">>
    /\ Len(resultField) = 2
    /\ ~ resultField[2].show
    /\ \E i \in 1..Len(timers) :
          timers[i].kind = "reveal" /\ timers[i].attached /\ timers[i].target = 2
    /\ inputValidation.textContent = <<"Invalid input: Must be a number">>

\* The reveal timers of q that belong to elements of the field, in queue order.
Attached(q) == SelectSeq(q, LAMBDA t : t.kind = "reveal" /\ t.attached)

\* Every element of the output region is revealed.
AllRevealed == \A i \in 1..Len(resultField) : resultField[i].show

\* C20: the reveal timers are cosmetic under every interleaving. When the
\* submit handler returns, the output region holds the icon and the full
\* sentence of each of the n elements, none revealed yet, with one reveal
\* timer for each, at 0, 50, ..., 50 * (n - 1) ms in index order. A reveal
\* timer left by an earlier submit changes nothing of the output region
\* when it runs; one of the latest render marks its own element alone,
\* after those of lower index, and changes no content. And every element of
\* the latest render is revealed in the end.
C20_RevealTimersAreCosmetic ==
    /\ [][/\ (Submit /\ Calculated') =>
               /\ Content(resultField') = [i \in 1..Len(elements') |-> Unit(elements'[i])]
               /\ \A i \in 1..Len(resultField') : ~ resultField'[i].show
               /\ Attached(timers') =
                     [i \in 1..Len(elements') |->
                         [kind |-> "reveal", due |-> clock + 50 * (i - 1), target |-> i, attached |-> TRUE]]
          /\ (FireTimer /\ Head(timers).kind = "reveal") =>
               /\ Content(resultField') = Content(resultField)
               /\ inputValidation' = inputValidation
               /\ ~ Head(timers).attached => resultField' = resultField
               /\ Head(timers).attached =>
                     /\ resultField'[Head(timers).target].show
                     /\ \A i \in 1..Len(resultField) :
                           /\ i < Head(timers).target => resultField[i].show
                           /\ i # Head(timers).target => resultField'[i] = resultField[i]]_vars
    /\ <>[]AllRevealed

\* The reveal timer of the second element of an earlier render is due and the
\* next to run, while the latest render, of two elements, has its first
\* element revealed and its second not yet.
C20_Witness ==
    /\ Calculated
    /\ Len(resultField) = 2
    /\ resultField[1].show
    /\ ~ resultField[2].show
    /\ timers # <<>>
    /\ Head(timers).kind = "reveal"
    /\ ~ Head(timers).attached
    /\ Head(timers).target = 2
    /\ Head(timers).due <= clock

====
